---- MODULE Spec2Model ----
(***************************************************************************)
(* Shape-level model of the two architectures of the repository:           *)
(*   src/resnet_mod.py            BlockV1, BlockGroup, ResNet, ResNet18    *)
(*   src/mlp_mixer/MLP_mixer_mod.py   MlpBlock, MixerBlock, MlpMixer       *)
(*                                                                         *)
(* A tensor is modelled by its shape (a sequence of naturals); a layer by  *)
(* the record of its constructor arguments; a Python dict by a function    *)
(* with a string domain.  Floats are scaled to integers: decay_rate in     *)
(* thousandths (0.9 -> 900, 0.999 -> 999), eps in millionths (1e-5 -> 10). *)
(***************************************************************************)
EXTENDS Integers, Sequences, FiniteSets, TLC

VARIABLES
    args,     \* arguments the constructor was called with (and the class)
    pc,       \* position inside __init__ / __call__
    self,     \* attributes assigned on the module object so far
    i,        \* loop index of the `for i in range(4)` / `for block_group` loops
    built,    \* names of the submodules constructed, in construction order
    inputs,   \* shape of the tensor __call__ was invoked with
    out,      \* shape of the local `out` / `x` of __call__
    trace,    \* modules and functions applied by __call__, in order
    adds,     \* operands of every residual addition performed by __call__
    err       \* exception raised ("" when none)

vars == <<args, pc, self, i, built, inputs, out, trace, adds, err>>

(***************************************************************************)
(* Bounds of the model.                                                    *)
(***************************************************************************)
MaxBlocks == 2      \* blocks_per_group entries range over 0..MaxBlocks
MaxBatch  == 2      \* batch sizes 1..MaxBatch
MaxSide   == 3      \* number of distinct image heights/widths tried

(***************************************************************************)
(* Python / array-library primitives.                                      *)
(***************************************************************************)
None == [py_none |-> TRUE]
EmptyDict == <<>>

\* `a or b` for an Optional[Mapping]: None and the empty dict are falsy.
PyOr(a, b) == IF a = None \/ DOMAIN a = {} THEN b ELSE a

\* dict.setdefault(k, v)
setdefault(d, k, v) == IF k \in DOMAIN d THEN d ELSE d @@ (k :> v)

CeilDiv(a, b) == (a + b - 1) \div b

\* Shape of an elementwise binary operation under numpy broadcasting of two
\* arrays of the same rank; "TypeError" when the shapes are incompatible.
BroadcastOK(a, b) ==
    /\ Len(a) = Len(b)
    /\ \A k \in 1..Len(a) : a[k] = b[k] \/ a[k] = 1 \/ b[k] = 1

Broadcast(a, b) ==
    [k \in 1..Len(a) |-> IF a[k] = 1 THEN b[k] ELSE a[k]]

Mod(name) == [kind |-> "module", name |-> name]
Fn(name)  == [kind |-> "fn", name |-> name]

(***************************************************************************)
(* haiku layers: constructor records and shape functions.                  *)
(***************************************************************************)
hkConv2D(output_channels, kernel_shape, stride, with_bias, padding, name) ==
    [output_channels |-> output_channels, kernel_shape |-> kernel_shape,
     stride |-> stride, with_bias |-> with_bias, padding |-> padding,
     name |-> name]

\* hk.BatchNorm(name=name, **bn_config)
hkBatchNorm(name, bn_config) == bn_config @@ ("name" :> name)

\* NHWC convolution with padding "SAME": spatial dims shrink to ceil(d/stride).
Conv2DCall(conv, x) ==
    <<x[1], CeilDiv(x[2], conv.stride), CeilDiv(x[3], conv.stride),
      conv.output_channels>>

\* hk.max_pool(window_shape=(1,3,3,1), strides=(1,2,2,1), padding="SAME")
MaxPoolCall(x) == <<x[1], CeilDiv(x[2], 2), CeilDiv(x[3], 2), x[4]>>

\* jnp.mean(out, axis=(1, 2))
MeanHW(x) == <<x[1], x[4]>>

\* hk.Linear(num_classes)(out): replaces the last axis.
LinearCall(output_size, x) == [k \in 1..Len(x) |-> IF k = Len(x) THEN output_size ELSE x[k]]

(***************************************************************************)
(* BlockV1                                                                 *)
(***************************************************************************)
\* BlockV1.__init__: bn_config defaults of the block (lines 41-44).
BlockBnConfig(bn_config) ==
    setdefault(setdefault(setdefault(bn_config,
        "create_scale", TRUE), "create_offset", TRUE), "decay_rate", 999)

BlockConv0(channels, stride, bottleneck) ==
    hkConv2D(channels \div (IF bottleneck THEN 4 ELSE 1),
             IF bottleneck THEN 1 ELSE 3,
             IF bottleneck THEN 1 ELSE stride,
             FALSE, "SAME", "conv_0")

BlockConv1(channels, stride, bottleneck) ==
    hkConv2D(channels \div (IF bottleneck THEN 4 ELSE 1),
             3,
             IF bottleneck THEN stride ELSE 1,
             FALSE, "SAME", "conv_1")

BlockProjConv(channels, stride) ==
    hkConv2D(channels, 1, stride, FALSE, "SAME", "shortcut_conv")

\* BlockV1.__init__: the attributes of the block.  proj_conv / proj_batchnorm
\* exist only when the code assigns them; a layer pair is <<conv, bn>> with
\* bn = None when use_bn is false.
BlockV1Init(channels, stride, use_projection, bn_config, bottleneck, use_bn, name) ==
    LET cfg    == BlockBnConfig(bn_config)
        conv_0 == BlockConv0(channels, stride, bottleneck)
        conv_1 == BlockConv1(channels, stride, bottleneck)
        layers == IF use_bn
                  THEN << <<conv_0, hkBatchNorm("batchnorm_0", cfg)>>,
                          <<conv_1, hkBatchNorm("batchnorm_1", cfg)>> >>
                  ELSE << <<conv_0, None>>, <<conv_1, None>> >>
        proj   == IF use_projection
                  THEN ("proj_conv" :> BlockProjConv(channels, stride))
                       @@ (IF use_bn
                           THEN ("proj_batchnorm" :> hkBatchNorm("shortcut_batchnorm", cfg))
                           ELSE EmptyDict)
                  ELSE EmptyDict
    IN  [cls |-> "BlockV1", name |-> name, use_projection |-> use_projection,
         use_bn |-> use_bn, layers |-> layers] @@ proj

\* Submodules of a block in the order BlockV1.__init__ constructs them.
BlockV1Modules(block, path) ==
    (IF block.use_projection
     THEN <<path \o "/" \o block.proj_conv.name>>
          \o (IF block.use_bn THEN <<path \o "/" \o block.proj_batchnorm.name>> ELSE <<>>)
     ELSE <<>>)
    \o <<path \o "/" \o block.layers[1][1].name>>
    \o (IF block.use_bn THEN <<path \o "/" \o block.layers[1][2].name>> ELSE <<>>)
    \o <<path \o "/" \o block.layers[2][1].name>>
    \o (IF block.use_bn THEN <<path \o "/" \o block.layers[2][2].name>> ELSE <<>>)

\* The shortcut branch of BlockV1.__call__ (lines 87-92).
BlockV1Shortcut(block, path, x) ==
    IF block.use_projection
    THEN [out   |-> Conv2DCall(block.proj_conv, x),
          trace |-> <<Mod(path \o "/" \o block.proj_conv.name)>>
                    \o (IF block.use_bn
                        THEN <<Mod(path \o "/" \o block.proj_batchnorm.name)>>
                        ELSE <<>>)]
    ELSE [out |-> x, trace |-> <<>>]

\* The loop over self.layers of BlockV1.__call__ (lines 94-99), from layer k.
RECURSIVE BlockV1Layers(_, _, _, _)
BlockV1Layers(block, path, k, x) ==
    IF k > Len(block.layers)
    THEN [out |-> x, trace |-> <<>>]
    ELSE LET conv_i == block.layers[k][1]
             bn_i   == block.layers[k][2]
             here   == <<Mod(path \o "/" \o conv_i.name)>>
                       \o (IF block.use_bn THEN <<Mod(path \o "/" \o bn_i.name)>> ELSE <<>>)
                       \o (IF k - 1 < Len(block.layers) - 1 THEN <<Fn("relu")>> ELSE <<>>)
             rest   == BlockV1Layers(block, path, k + 1, Conv2DCall(conv_i, x))
         IN  [out |-> rest.out, trace |-> here \o rest.trace]

\* BlockV1.__call__: the result shape, what was applied, the operands of
\* `out + shortcut`, and the exception of an addition that cannot broadcast.
BlockV1Call(block, path, x) ==
    LET shortcut == BlockV1Shortcut(block, path, x)
        main     == BlockV1Layers(block, path, 1, x)
        ok       == BroadcastOK(main.out, shortcut.out)
    IN  [out   |-> IF ok THEN Broadcast(main.out, shortcut.out) ELSE x,
         trace |-> <<Mod(path)>> \o shortcut.trace \o main.trace
                   \o <<Fn("add")>> \o (IF ok THEN <<Fn("relu")>> ELSE <<>>),
         adds  |-> <<[block |-> path, x |-> x, out |-> main.out,
                      shortcut |-> shortcut.out]>>,
         err   |-> IF ok THEN "" ELSE "TypeError"]

(***************************************************************************)
(* BlockGroup                                                              *)
(***************************************************************************)
\* Mutant of BlockStride: every block of the group receives the group's stride.
BlockStride_all(j, stride) == stride

\* Stride of block j (0-based) of a group: `1 if i else stride`.
BlockStride(j, stride) == IF j # 0 THEN 1 ELSE stride

\* `block_cls = BlockV1` (line 121).
BlockCls(resnet_v2) == "BlockV1"

BlockGroupInit(channels, num_blocks, stride, bn_config, resnet_v2, bottleneck, use_projection, use_bn, name) ==
    [name   |-> name,
     use_bn |-> use_bn,
     blocks |-> [j \in 1..num_blocks |->
                    [BlockV1Init(channels, BlockStride(j - 1, stride), use_projection,
                                 bn_config, bottleneck, use_bn,
                                 "block_" \o ToString(j - 1))
                     EXCEPT !.cls = BlockCls(resnet_v2)]]]

RECURSIVE BlockGroupModulesFrom(_, _)
BlockGroupModulesFrom(group, j) ==
    IF j > Len(group.blocks) THEN <<>>
    ELSE LET path == group.name \o "/" \o group.blocks[j].name
         IN  <<path>> \o BlockV1Modules(group.blocks[j], path)
             \o BlockGroupModulesFrom(group, j + 1)

\* Submodules of a group in construction order: the group, then each block
\* followed by the block's layers.
BlockGroupModules(group) == <<group.name>> \o BlockGroupModulesFrom(group, 1)

\* BlockGroup.__call__ from block j on; stops at the first exception.
RECURSIVE BlockGroupCallFrom(_, _, _)
BlockGroupCallFrom(group, j, x) ==
    IF j > Len(group.blocks)
    THEN [out |-> x, trace |-> <<>>, adds |-> <<>>, err |-> ""]
    ELSE LET r == BlockV1Call(group.blocks[j], group.name \o "/" \o group.blocks[j].name, x)
         IN  IF r.err # "" THEN r
             ELSE LET rest == BlockGroupCallFrom(group, j + 1, r.out)
                  IN  [out |-> rest.out, trace |-> r.trace \o rest.trace,
                       adds |-> r.adds \o rest.adds, err |-> rest.err]

BlockGroupCall(group, x) ==
    LET r == BlockGroupCallFrom(group, 1, x)
    IN  [r EXCEPT !.trace = <<Mod(group.name)>> \o r.trace]

(***************************************************************************)
(* ResNet / ResNet18: constructor arguments                                *)
(***************************************************************************)
BOOL == {TRUE, FALSE}

Pow2(k) == IF k = 0 THEN 1 ELSE IF k = 1 THEN 2 ELSE IF k = 2 THEN 4
           ELSE IF k = 3 THEN 8 ELSE 16

\* Sequences of length 3, 4 and 5, so that check_length meets both outcomes.
BlocksPerGroupChoices ==
    {[k \in 1..n |-> b] : n \in 3..5, b \in 0..MaxBlocks}

ChannelsPerGroupChoices ==
    {[k \in 1..n |-> c * Pow2(k - 1)] : n \in 3..5, c \in {64, 256}}

UseProjectionChoices ==
    {<<TRUE, TRUE, TRUE, TRUE>>, <<FALSE, TRUE, TRUE, TRUE>>}

BnConfigChoices ==
    {None, [decay_rate |-> 500], [eps |-> 1000]}

InitialConvConfigChoices ==
    {None, [output_channels |-> 32]}

NumClassesChoices == {10}

\* NHWC image batches, grey or RGB: square ones and ones with an odd, larger
\* width.
InputShapes ==
    UNION {{<<n, h, w, c>> : n \in 1..MaxBatch, w \in {h, 2 * h + 1}, c \in {1, 3}} :
              h \in 1..MaxSide}

\* Calls ResNet(...).
ResNetArgs ==
    [cls                 : {"ResNet"},
     blocks_per_group    : BlocksPerGroupChoices,
     num_classes         : NumClassesChoices,
     use_bn              : BOOL,
     resnet_v1           : BOOL,
     bn_config           : BnConfigChoices,
     resnet_v2           : BOOL,
     bottleneck          : BOOL,
     channels_per_group  : ChannelsPerGroupChoices,
     use_projection      : UseProjectionChoices,
     initial_conv_config : InitialConvConfigChoices]

\* Calls ResNet18(...).
ResNet18Args ==
    [cls                 : {"ResNet18"},
     num_classes         : NumClassesChoices,
     use_bn              : BOOL,
     bn_config           : BnConfigChoices,
     resnet_v1           : BOOL,
     resnet_v2           : BOOL,
     initial_conv_config : InitialConvConfigChoices]

\* Mutant of ResNet18Config: the v1 table drops every projection shortcut.
ResNet18Config_noproj(resnet_v1) ==
    [blocks_per_group   |-> <<2, 2, 2, 2>>,
     bottleneck         |-> FALSE,
     channels_per_group |-> <<64, 128, 256, 512>>,
     use_projection     |-> IF resnet_v1 THEN <<FALSE, FALSE, FALSE, FALSE>>
                            ELSE <<TRUE, TRUE, TRUE, TRUE>>]

\* CONFIGS[18] of ResNet18.__init__ (lines 287-304).
ResNet18Config(resnet_v1) ==
    IF resnet_v1
    THEN [blocks_per_group   |-> <<2, 2, 2, 2>>,
          bottleneck         |-> FALSE,
          channels_per_group |-> <<64, 128, 256, 512>>,
          use_projection     |-> <<FALSE, TRUE, TRUE, TRUE>>]
    ELSE [blocks_per_group   |-> <<2, 2, 2, 2>>,
          bottleneck         |-> FALSE,
          channels_per_group |-> <<64, 128, 256, 512>>,
          use_projection     |-> <<TRUE, TRUE, TRUE, TRUE>>]

\* The arguments of super().__init__(...) in ResNet18.__init__ (lines 305-313).
ResNet18SuperArgs(a) ==
    [cls |-> a.cls, num_classes |-> a.num_classes, use_bn |-> a.use_bn,
     bn_config |-> a.bn_config, initial_conv_config |-> a.initial_conv_config,
     resnet_v1 |-> a.resnet_v1, resnet_v2 |-> a.resnet_v2]
    @@ ResNet18Config(a.resnet_v1)

(***************************************************************************)
(* ResNet.__init__ helpers                                                 *)
(***************************************************************************)
\* Mutant of BnConfig: the decay_rate default of ResNet is not applied.
BnConfig_nodecay(a) ==
    setdefault(setdefault(setdefault(PyOr(a.bn_config, EmptyDict),
        "eps", 10), "create_scale", TRUE), "create_offset", TRUE)

\* bn_config of ResNet.__init__ (lines 193-197).
BnConfig(a) ==
    setdefault(setdefault(setdefault(setdefault(PyOr(a.bn_config, EmptyDict),
        "decay_rate", 900), "eps", 10), "create_scale", TRUE), "create_offset", TRUE)

\* initial_conv_config of ResNet.__init__ (lines 207-219).
InitialConvConfig(a) ==
    LET c0 == setdefault(PyOr(a.initial_conv_config, EmptyDict), "output_channels", 64)
        c1 == IF a.resnet_v1
              THEN setdefault(setdefault(c0, "kernel_shape", 7), "stride", 2)
              ELSE setdefault(setdefault(c0, "kernel_shape", 3), "stride", 1)
    IN  setdefault(setdefault(setdefault(c1,
            "with_bias", FALSE), "padding", "SAME"), "name", "initial_conv")

\* Mutant of check_length: only sequences that are too short are rejected.
check_length_short(length, value, name) ==
    IF Len(value) < length THEN "ValueError" ELSE ""

\* check_length: the exception raised, "" when none.
check_length(length, value, name) ==
    IF Len(value) # length THEN "ValueError" ELSE ""

\* `strides = (1, 2, 2, 2)` (line 229).
strides == <<1, 2, 2, 2>>

\* Whether `seq[k]` (0-based k) raises IndexError.
IndexError(seq, k) == k + 1 > Len(seq)

(***************************************************************************)
(* ResNet18.__init__ and ResNet.__init__                                   *)
(***************************************************************************)
Init ==
    /\ args \in ResNetArgs \cup ResNet18Args
    /\ pc = IF args.cls = "ResNet18" THEN "ResNet18" ELSE "init"
    /\ self = EmptyDict
    /\ i = 0
    /\ built = <<>>
    /\ inputs = <<>>
    /\ out = <<>>
    /\ trace = <<>>
    /\ adds = <<>>
    /\ err = ""

\* ResNet18.__init__: picks CONFIGS[18] and calls ResNet.__init__.
ResNet18Init ==
    /\ pc = "ResNet18"
    /\ args' = ResNet18SuperArgs(args)
    /\ pc' = "init"
    /\ UNCHANGED <<self, i, built, inputs, out, trace, adds, err>>

\* Lines 188-201: the flags are stored on the object.
InitAttrs ==
    /\ pc = "init"
    /\ self' = [resnet_v2 |-> args.resnet_v2, resnet_v1 |-> args.resnet_v1,
                use_bn |-> args.use_bn]
    /\ pc' = "check_length"
    /\ UNCHANGED <<args, i, built, inputs, out, trace, adds, err>>

\* The exception of lines 204-205, "" when both checks pass.
CheckLengths(a) ==
    LET e1 == check_length(4, a.blocks_per_group, "blocks_per_group")
    IN  IF e1 # "" THEN e1
        ELSE check_length(4, a.channels_per_group, "channels_per_group")

\* Lines 203-205.
CheckLength ==
    /\ pc = "check_length"
    /\ LET e == CheckLengths(args)
       IN  /\ err' = e
           /\ pc' = IF e # "" THEN "error" ELSE "initial_conv"
    /\ UNCHANGED <<args, self, i, built, inputs, out, trace, adds>>

\* Lines 207-221.
BuildInitialConv ==
    /\ pc = "initial_conv"
    /\ LET conv == InitialConvConfig(args)
       IN  /\ self' = self @@ ("initial_conv" :> conv)
           /\ built' = built \o <<conv.name>>
    /\ pc' = "initial_batchnorm"
    /\ UNCHANGED <<args, i, inputs, out, trace, adds, err>>

\* Lines 223-226.
BuildInitialBatchNorm ==
    /\ pc = "initial_batchnorm"
    /\ IF ~self.resnet_v2 /\ self.use_bn
       THEN LET bn == hkBatchNorm("initial_batchnorm", BnConfig(args))
            IN  /\ self' = self @@ ("initial_batchnorm" :> bn)
                /\ built' = built \o <<bn.name>>
       ELSE UNCHANGED <<self, built>>
    /\ pc' = "block_groups"
    /\ i' = 0
    /\ UNCHANGED <<args, inputs, out, trace, adds, err>>

\* The BlockGroup(...) call of loop iteration k (0-based), lines 232-240.
ResNetBlockGroup(a, k) ==
    BlockGroupInit(a.channels_per_group[k + 1], a.blocks_per_group[k + 1],
                   strides[k + 1], BnConfig(a), a.resnet_v2, a.bottleneck,
                   a.use_projection[k + 1], a.use_bn,
                   "block_group_" \o ToString(k))

\* One iteration of `for i in range(4)` (lines 228-240).
BuildBlockGroup ==
    /\ pc = "block_groups"
    /\ i < 4
    /\ IF \/ IndexError(args.channels_per_group, i)
          \/ IndexError(args.blocks_per_group, i)
          \/ IndexError(args.use_projection, i)
       THEN /\ err' = "IndexError"
            /\ pc' = "error"
            /\ UNCHANGED <<self, i, built>>
       ELSE LET group == ResNetBlockGroup(args, i)
                have  == IF "block_groups" \in DOMAIN self THEN self.block_groups ELSE <<>>
            IN  /\ self' = [g \in DOMAIN self \cup {"block_groups"} |->
                              IF g = "block_groups" THEN Append(have, group) ELSE self[g]]
                /\ built' = built \o BlockGroupModules(group)
                /\ i' = i + 1
                /\ UNCHANGED <<pc, err>>
    /\ UNCHANGED <<args, inputs, out, trace, adds>>

\* Line 242.
BuildLogits ==
    /\ pc = "block_groups"
    /\ i = 4
    /\ self' = self @@ ("logits" :> [output_size |-> args.num_classes,
                                     w_init |-> "zeros", name |-> "logits"])
    /\ built' = built \o <<"logits">>
    /\ pc' = "built"
    /\ UNCHANGED <<args, i, inputs, out, trace, adds, err>>

(***************************************************************************)
(* ResNet.__call__                                                         *)
(***************************************************************************)
\* Lines 245-246, on an input batch of any of the modelled shapes.
CallInitialConv ==
    /\ pc = "built"
    /\ \E x \in InputShapes :
          /\ inputs' = x
          /\ out' = Conv2DCall(self.initial_conv, x)
    /\ trace' = <<Mod(self.initial_conv.name)>>
    /\ pc' = "max_pool"
    /\ UNCHANGED <<args, self, i, built, adds, err>>

\* Lines 247-251.
CallMaxPool ==
    /\ pc = "max_pool"
    /\ IF self.resnet_v1
       THEN /\ out' = MaxPoolCall(out)
            /\ trace' = Append(trace, Fn("max_pool"))
       ELSE UNCHANGED <<out, trace>>
    /\ pc' = "call_block_groups"
    /\ i' = 0
    /\ UNCHANGED <<args, self, built, inputs, adds, err>>

\* One iteration of `for block_group in self.block_groups` (lines 253-254).
CallBlockGroup ==
    /\ pc = "call_block_groups"
    /\ i < Len(self.block_groups)
    /\ LET r == BlockGroupCall(self.block_groups[i + 1], out)
       IN  /\ trace' = trace \o r.trace
           /\ adds' = adds \o r.adds
           /\ err' = r.err
           /\ IF r.err # ""
              THEN /\ pc' = "error"
                   /\ UNCHANGED <<out, i>>
              ELSE /\ out' = r.out
                   /\ i' = i + 1
                   /\ UNCHANGED pc
    /\ UNCHANGED <<args, self, built, inputs>>

\* Line 257.
CallMean ==
    /\ pc = "call_block_groups"
    /\ i = Len(self.block_groups)
    /\ out' = MeanHW(out)
    /\ trace' = Append(trace, Fn("mean"))
    /\ pc' = "logits"
    /\ UNCHANGED <<args, self, i, built, inputs, adds, err>>

\* Line 258.
CallLogits ==
    /\ pc = "logits"
    /\ out' = LinearCall(self.logits.output_size, out)
    /\ trace' = Append(trace, Mod(self.logits.name))
    /\ pc' = "done"
    /\ UNCHANGED <<args, self, i, built, inputs, adds, err>>

Next ==
    \/ ResNet18Init
    \/ InitAttrs
    \/ CheckLength
    \/ BuildInitialConv
    \/ BuildInitialBatchNorm
    \/ BuildBlockGroup
    \/ BuildLogits
    \/ CallInitialConv
    \/ CallMaxPool
    \/ CallBlockGroup
    \/ CallMean
    \/ CallLogits

Spec == Init /\ [][Next]_vars

(***************************************************************************)
(* MLP-Mixer (flax): layers                                                *)
(***************************************************************************)
\* nn.Dense(features)(x): the kernel is (x.shape[-1], features) and the last
\* axis of x becomes `features`.
DenseKernel(features, x) == <<x[Len(x)], features>>

DenseCall(features, x) ==
    [k \in 1..Len(x) |-> IF k = Len(x) THEN features ELSE x[k]]

\* jnp.swapaxes(y, 1, 2) on a rank-3 array (0-based axes 1 and 2).
swapaxes12(y) == <<y[1], y[3], y[2]>>

\* nn.Conv(features, kernel_size, strides=strides)(x), padding "SAME".
ConvCall(features, strides_hw, x) ==
    <<x[1], CeilDiv(x[2], strides_hw[1]), CeilDiv(x[3], strides_hw[2]), features>>

\* einops.rearrange(x, 'n h w c -> n (h w) c')
rearrange(x) == <<x[1], x[2] * x[3], x[4]>>

\* jnp.mean(x, axis=1) on a rank-3 array.
MeanTokens(x) == <<x[1], x[3]>>

\* Mutant of MlpBlockOutFeatures: the second Dense repeats the hidden width.
MlpBlockOutFeatures_mlp_dim(mlp_dim, x) == mlp_dim

\* Width of the second Dense of MlpBlock: `x.shape[-1]`.
MlpBlockOutFeatures(mlp_dim, x) == x[Len(x)]

\* MlpBlock.__call__: output shape and the kernels of Dense_0 and Dense_1.
MlpBlockCall(mlp_dim, x) ==
    LET y == DenseCall(mlp_dim, x)
        f == MlpBlockOutFeatures(mlp_dim, x)
    IN  [out    |-> DenseCall(f, y),
         Dense_0 |-> DenseKernel(mlp_dim, x),
         Dense_1 |-> DenseKernel(f, y)]

\* The token-mixing branch of MixerBlock.__call__ (lines 25-28): the value
\* of y that is added to x, and the MlpBlock it went through.
MixerTokenMixing(tokens_mlp_dim, x) ==
    LET y0 == x                       \* nn.LayerNorm()(x)
        y1 == swapaxes12(y0)
        m  == MlpBlockCall(tokens_mlp_dim, y1)
    IN  [y |-> swapaxes12(m.out), mlp |-> m]

\* MixerBlock.__call__ for the block named `name`.
MixerBlockCall(tokens_mlp_dim, channels_mlp_dim, name, x) ==
    LET tm  == MixerTokenMixing(tokens_mlp_dim, x)
        ok1 == BroadcastOK(x, tm.y)
        x1  == IF ok1 THEN Broadcast(x, tm.y) ELSE x
        cm  == MlpBlockCall(channels_mlp_dim, x1)     \* on nn.LayerNorm()(x)
        ok2 == BroadcastOK(x1, cm.out)
        tmL == <<[name |-> name \o "/token_mixing/Dense_0", kernel |-> tm.mlp.Dense_0],
                 [name |-> name \o "/token_mixing/Dense_1", kernel |-> tm.mlp.Dense_1]>>
        cmL == <<[name |-> name \o "/channel_mixing/Dense_0", kernel |-> cm.Dense_0],
                 [name |-> name \o "/channel_mixing/Dense_1", kernel |-> cm.Dense_1]>>
    IN  IF ~ok1
        THEN [out |-> x, err |-> "TypeError", layers |-> tmL,
              adds |-> <<[block |-> name, out |-> x, shortcut |-> tm.y]>>]
        ELSE [out |-> IF ok2 THEN Broadcast(x1, cm.out) ELSE x1,
              err |-> IF ok2 THEN "" ELSE "TypeError",
              layers |-> tmL \o cmL,
              adds |-> <<[block |-> name, out |-> x, shortcut |-> tm.y],
                         [block |-> name, out |-> x1, shortcut |-> cm.out]>>]

(***************************************************************************)
(* MlpMixer.__call__                                                       *)
(***************************************************************************)
MaxMixerBlocks == 2

PatchChoices == {<<1, 1>>, <<2, 2>>, <<2, 3>>}

MixerArgs ==
    [cls              : {"MlpMixer"},
     patches          : PatchChoices,
     num_classes      : NumClassesChoices,
     num_blocks       : 0..MaxMixerBlocks,
     hidden_dim       : {4, 6},
     tokens_mlp_dim   : {5, 6},
     channels_mlp_dim : {7, 4}]

\* A constructed MlpMixer: a flax module is its dataclass fields; submodules
\* are created when __call__ first reaches them.
MixerInit ==
    /\ args \in MixerArgs
    /\ pc = "stem"
    /\ self = args
    /\ i = 0
    /\ built = <<>>
    /\ inputs = <<>>
    /\ out = <<>>
    /\ trace = <<>>
    /\ adds = <<>>
    /\ err = ""

\* Lines 46-47.
MixerStem ==
    /\ pc = "stem"
    /\ \E x \in InputShapes :
          /\ inputs' = x
          /\ out' = ConvCall(self.hidden_dim, self.patches, x)
    /\ trace' = Append(trace, Mod("stem"))
    /\ pc' = "rearrange"
    /\ UNCHANGED <<args, self, i, built, adds, err>>

\* Line 48.
MixerRearrange ==
    /\ pc = "rearrange"
    /\ out' = rearrange(out)
    /\ trace' = Append(trace, Fn("rearrange"))
    /\ pc' = "mixer_blocks"
    /\ i' = 0
    /\ UNCHANGED <<args, self, built, inputs, adds, err>>

\* One iteration of `for _ in range(self.num_blocks)` (lines 49-50).
MixerBlockStep ==
    /\ pc = "mixer_blocks"
    /\ i < self.num_blocks
    /\ LET name == "MixerBlock_" \o ToString(i)
           r    == MixerBlockCall(self.tokens_mlp_dim, self.channels_mlp_dim, name, out)
       IN  /\ built' = built \o r.layers
           /\ adds' = adds \o r.adds
           /\ trace' = Append(trace, Mod(name))
           /\ err' = r.err
           /\ IF r.err # ""
              THEN /\ pc' = "error"
                   /\ UNCHANGED <<out, i>>
              ELSE /\ out' = r.out
                   /\ i' = i + 1
                   /\ UNCHANGED pc
    /\ UNCHANGED <<args, self, inputs>>

\* Line 51.
MixerPreHeadLayerNorm ==
    /\ pc = "mixer_blocks"
    /\ i = self.num_blocks
    /\ trace' = Append(trace, Mod("pre_head_layer_norm"))
    /\ pc' = "mean"
    /\ UNCHANGED <<args, self, i, built, inputs, out, adds, err>>

\* Line 52.
MixerMean ==
    /\ pc = "mean"
    /\ out' = MeanTokens(out)
    /\ trace' = Append(trace, Fn("mean"))
    /\ pc' = "head"
    /\ UNCHANGED <<args, self, i, built, inputs, adds, err>>

\* Lines 53-54.
MixerHead ==
    /\ pc = "head"
    /\ built' = Append(built, [name |-> "head", kernel |-> DenseKernel(self.num_classes, out)])
    /\ out' = DenseCall(self.num_classes, out)
    /\ trace' = Append(trace, Mod("head"))
    /\ pc' = "done"
    /\ UNCHANGED <<args, self, i, inputs, adds, err>>

MixerNext ==
    \/ MixerStem
    \/ MixerRearrange
    \/ MixerBlockStep
    \/ MixerPreHeadLayerNorm
    \/ MixerMean
    \/ MixerHead

SpecMixer == MixerInit /\ [][MixerNext]_vars

(***************************************************************************)
(* Properties                                                              *)
(***************************************************************************)
\* Positions at which ResNet.__init__ has returned normally.
Constructed == pc \in {"built", "max_pool", "call_block_groups", "logits", "done"}

SubmoduleAttrs == {"initial_conv", "initial_batchnorm", "block_groups", "logits"}

BadLengths == Len(args.blocks_per_group) # 4 \/ Len(args.channels_per_group) # 4

\* C1: ResNet.__init__ raises ValueError whenever blocks_per_group or
\* channels_per_group is not of length 4, and does so before any submodule
\* (initial conv, initial batch norm, block group, logits) exists; when both
\* have length 4 the length check raises nothing.
C1_CheckLengthBeforeSubmodules ==
    /\ pc \in {"ResNet18", "init", "check_length"} =>
          /\ built = <<>>
          /\ DOMAIN self \cap SubmoduleAttrs = {}
    /\ pc \notin {"ResNet18", "init", "check_length"} =>
          /\ BadLengths =>
                /\ pc = "error"
                /\ err = "ValueError"
                /\ built = <<>>
                /\ DOMAIN self \cap SubmoduleAttrs = {}
          /\ ~BadLengths => err # "ValueError"

C1_Witness ==
    /\ pc = "error"
    /\ err = "ValueError"
    /\ Len(args.blocks_per_group) = 4
    /\ Len(args.channels_per_group) = 5

\* Path of block j (1-based) of group k (1-based), as BlockGroup names it.
BlockPath(k, j) == "block_group_" \o ToString(k - 1) \o "/block_" \o ToString(j - 1)

\* The (group, block) positions of the blocks the constructor was asked for.
BlockPositions ==
    {<<k, j>> \in (1..4) \X (1..(MaxBlocks + 2)) : j <= args.blocks_per_group[k]}

\* Shape of a block's output for input x: (N, ceil(H/stride), ceil(W/stride), channels).
ExpectedBlockShape(x, stride, channels) ==
    <<x[1], CeilDiv(x[2], stride), CeilDiv(x[3], stride), channels>>

\* C2: in every BlockV1 with use_projection=True, bottleneck or not, the main
\* path and the projected shortcut both have shape
\* (N, ceil(H/stride), ceil(W/stride), channels) when they are added.
C2_ProjectionAddsEqualShapes ==
    (pc \in {"call_block_groups", "logits", "done", "error"} /\ err # "ValueError") =>
        \A n \in 1..Len(adds) : \A p \in BlockPositions :
            (adds[n].block = BlockPath(p[1], p[2]) /\ args.use_projection[p[1]]) =>
                LET want == ExpectedBlockShape(adds[n].x,
                                IF p[2] = 1 THEN <<1, 2, 2, 2>>[p[1]] ELSE 1,
                                args.channels_per_group[p[1]])
                IN  adds[n].out = want /\ adds[n].shortcut = want

\* C3: ResNet18 (either resnet_v1, default initial_conv_config) builds 4
\* groups of 2 non-bottleneck BlockV1 blocks with widths (64,128,256,512);
\* every residual addition is between equal shapes, no addition fails, all 8
\* blocks add, and the logits are (N, num_classes).
C3_ResNet18Shapes ==
    (args.cls = "ResNet18" /\ args.initial_conv_config = None /\ pc # "ResNet18") =>
        /\ err = ""
        /\ \A n \in 1..Len(adds) : adds[n].out = adds[n].shortcut
        /\ Constructed =>
              /\ Len(self.block_groups) = 4
              /\ \A k \in 1..4 :
                    /\ Len(self.block_groups[k].blocks) = 2
                    /\ \A j \in 1..2 :
                          LET b == self.block_groups[k].blocks[j]
                          IN  /\ b.cls = "BlockV1"
                              /\ Len(b.layers) = 2
                              /\ b.layers[1][1].kernel_shape = 3
                              /\ b.layers[2][1].kernel_shape = 3
                              /\ b.layers[1][1].output_channels = <<64, 128, 256, 512>>[k]
                              /\ b.layers[2][1].output_channels = <<64, 128, 256, 512>>[k]
        /\ pc = "done" =>
              /\ Len(adds) = 8
              /\ out = <<inputs[1], args.num_classes>>

C3_Witness ==
    /\ args.cls = "ResNet18"
    /\ args.initial_conv_config = None
    /\ pc = "done"
    /\ args.resnet_v1
    /\ Len(adds) = 8
    /\ inputs[2] > 1

\* Number of tokens of the stem's output: ceil(H/ph) * ceil(W/pw).
Tokens == CeilDiv(inputs[2], args.patches[1]) * CeilDiv(inputs[3], args.patches[2])

\* The Dense layer of the given name created by __call__.
KernelsNamed(name) == {built[n].kernel : n \in {m \in 1..Len(built) : built[m].name = name}}

\* C4: MlpMixer maps (n,H,W,C) to (n, num_classes) for every num_blocks >= 0;
\* the tokens are (n, T, hidden_dim) after the rearrangement and after every
\* MixerBlock; token mixing maps T -> tokens_mlp_dim -> T, channel mixing maps
\* hidden_dim -> channels_mlp_dim -> hidden_dim, and both residual additions
\* of every block are between (n, T, hidden_dim) tensors.
C4_MixerShapes ==
    /\ err = ""
    /\ pc = "mixer_blocks" => out = <<inputs[1], Tokens, args.hidden_dim>>
    /\ pc = "done" => out = <<inputs[1], args.num_classes>>
    /\ pc \notin {"stem", "rearrange"} =>
          /\ Len(adds) = 2 * i
          /\ Len(built) >= 4 * i
          /\ \A n \in 1..Len(adds) :
                /\ adds[n].out = <<inputs[1], Tokens, args.hidden_dim>>
                /\ adds[n].shortcut = <<inputs[1], Tokens, args.hidden_dim>>
          /\ \A b \in 0..(i - 1) :
                LET name == "MixerBlock_" \o ToString(b)
                IN  /\ KernelsNamed(name \o "/token_mixing/Dense_0")
                          = {<<Tokens, args.tokens_mlp_dim>>}
                    /\ KernelsNamed(name \o "/token_mixing/Dense_1")
                          = {<<args.tokens_mlp_dim, Tokens>>}
                    /\ KernelsNamed(name \o "/channel_mixing/Dense_0")
                          = {<<args.hidden_dim, args.channels_mlp_dim>>}
                    /\ KernelsNamed(name \o "/channel_mixing/Dense_1")
                          = {<<args.channels_mlp_dim, args.hidden_dim>>}

C4_Witness ==
    /\ pc = "done"
    /\ args.num_blocks = 2
    /\ i = 2
    /\ Tokens > 1
    /\ Tokens # args.hidden_dim
    /\ Len(adds) = 4

\* Every BatchNorm layer held by the object: the initial one, and the
\* shortcut, batchnorm_0 and batchnorm_1 layers of every block.
BlockBatchNorms(b) ==
    (IF "proj_batchnorm" \in DOMAIN b THEN {b.proj_batchnorm} ELSE {})
    \cup {b.layers[n][2] : n \in {m \in 1..Len(b.layers) : b.layers[m][2] # None}}

AllBatchNorms ==
    (IF "initial_batchnorm" \in DOMAIN self THEN {self.initial_batchnorm} ELSE {})
    \cup (IF "block_groups" \in DOMAIN self
          THEN UNION {UNION {BlockBatchNorms(self.block_groups[k].blocks[j]) :
                                j \in 1..Len(self.block_groups[k].blocks)} :
                         k \in 1..Len(self.block_groups)}
          ELSE {})

\* The value a BatchNorm must get for key k: the caller's, else default d.
CallerOr(k, d) == IF k \in DOMAIN args.bn_config THEN args.bn_config[k] ELSE d

\* C5: every BatchNorm inside a ResNet has decay_rate 0.9 and eps 1e-5 unless
\* the caller's bn_config gives the key, and then has the caller's value; the
\* 0.999 of BlockV1 is never used.
C5_BatchNormConfig ==
    pc # "ResNet18" =>
        \A bn \in AllBatchNorms :
            /\ {"decay_rate", "eps"} \subseteq DOMAIN bn
            /\ bn.decay_rate = CallerOr("decay_rate", 900)
            /\ bn.eps = CallerOr("eps", 10)

C5_Witness ==
    /\ pc = "built"
    /\ args.bn_config = None
    /\ "initial_batchnorm" \in DOMAIN self
    /\ \A k \in 1..4 : Len(self.block_groups[k].blocks) = 2
    /\ Cardinality(AllBatchNorms) >= 4
    /\ \A bn \in AllBatchNorms : bn.decay_rate = 900

\* C6: resnet_v2 selects the block implementation: every non-empty block
\* group built with resnet_v2 differs from the group the same arguments
\* build with the flag negated.
C6_ResNetV2SelectsBlocks ==
    pc = "built" =>
        \A k \in 1..4 :
            Len(self.block_groups[k].blocks) > 0 =>
                self.block_groups[k]
                    # ResNetBlockGroup([args EXCEPT !.resnet_v2 = ~args.resnet_v2], k - 1)

\* C7: the groups get strides (1,2,2,2); in a group only block 0 gets the
\* group's stride, later blocks get 1; in a block conv_1 (bottleneck) or
\* conv_0 (otherwise) carries the block's stride and the other conv has
\* stride 1; a projection conv carries the block's stride.
C7_StrideTable ==
    (pc # "ResNet18" /\ "block_groups" \in DOMAIN self) =>
        \A k \in 1..Len(self.block_groups) :
            /\ Len(self.block_groups[k].blocks) = args.blocks_per_group[k]
            /\ \A j \in 1..Len(self.block_groups[k].blocks) :
                  LET b  == self.block_groups[k].blocks[j]
                      st == IF j = 1 THEN <<1, 2, 2, 2>>[k] ELSE 1
                      c0 == b.layers[1][1]
                      c1 == b.layers[2][1]
                  IN  /\ c0.name = "conv_0" /\ c1.name = "conv_1"
                      /\ args.bottleneck => (c1.stride = st /\ c0.stride = 1)
                      /\ ~args.bottleneck => (c0.stride = st /\ c1.stride = 1)
                      /\ b.use_projection => b.proj_conv.stride = st

C7_Witness ==
    /\ pc = "built"
    /\ args.bottleneck
    /\ args.blocks_per_group = <<2, 2, 2, 2>>
    /\ args.use_projection[1]
    /\ self.block_groups[2].blocks[1].layers[2][1].stride = 2
    /\ self.block_groups[2].blocks[2].layers[2][1].stride = 1

\* Names of the modules applied by __call__, in order.
AppliedModules ==
    LET m == SelectSeq(trace, LAMBDA t : t.kind = "module")
    IN  [n \in 1..Len(m) |-> m[n].name]

\* C8: a completed ResNet.__call__ has applied every submodule that
\* ResNet.__init__ constructed exactly once, in construction order (so the
\* initial_batchnorm, when constructed, right after the initial conv).
C8_AppliesEverySubmoduleOnce ==
    (pc = "done" /\ args.cls \in {"ResNet", "ResNet18"}) => AppliedModules = built

====
